---- MODULE Spec2Model ----
(***************************************************************************)
(* Nightly attendance roll-over, attendance streak and leaderboard refresh *)
(* of amfoss/root.                                                         *)
(*                                                                         *)
(* Time is counted in minutes.  An instant is a number of minutes since    *)
(* 00:00 UTC of calendar day 0; a naive local time is the instant plus the *)
(* zone's offset; a date is the day number of a naive local time.          *)
(* Every SQL statement is one atomic step; the clock may advance between   *)
(* any two steps (every statement is awaited).                             *)
(***************************************************************************)
EXTENDS Integers, Sequences, FiniteSets, TLC

(***************************************************************************)
(* Bounds of the model.                                                    *)
(***************************************************************************)
\* last calendar day (UTC day number) the clock may reach
MaxDay == 2
\* days in a month of the model's calendar
DaysPerMonth == 2
\* number of mark_attendance calls explored
MaxMarks == 1
\* number of add_attendance calls explored
MaxAdds == 1
\* the status-update streak up to which update_streak calls are explored
MaxStreak == 2

(***************************************************************************)
(* Program constants.                                                      *)
(***************************************************************************)
\* chrono::Duration::hours(12), subtracted from `today` to get `yesterday`
YesterdayHours == 12
\* seconds added to the wait until midnight
ExtraSleepSecs == 60
\* offset of Asia/Kolkata from UTC, in minutes (+05:30)
Kolkata == 5 * 60 + 30

MinutesPerDay == 24 * 60
\* the last instant of calendar day d (UTC)
EndOfDay(d) == (d + 1) * MinutesPerDay - 1

\* the member ids
MemberIds == {1, 2}
\* the scheduler instances (one process each)
Instances == {1, 2}
\* machine-local zone offsets explored: Asia/Kolkata, UTC, UTC-07:00
LocalOffsets == {Kolkata, 0, 0 - 7 * 60}
\* machine-local time of day at which the process is started
StartTimes == {0, 10 * 60}
\* time that may elapse between two steps
Durations == {12 * 60}
Platforms == {"leetcode", "codeforces"}
\* Ok(None) of fetch_optional, and Err(_) of a statement
NoRow == [none |-> TRUE]
StoreErr == [err |-> TRUE]
\* Err(_) of the COUNT query
CountErr == 0 - 1
\* the calendar dates of the model
Dates == 0..(MaxDay + 2)
\* (timein, timeout) values given to add_attendance
AddTimes == {<<9 * 60, 17 * 60>>}
\* the values of cp_platform: the two platforms update_cp_ratings knows, and another
CpPlatforms == {"Codeforces", "LeetCode", "AtCoder"}
\* the ratings the table holds at the start, and the ratings a lookup may return
StoredRatings == {1500}
Ratings == {1200, 1600}
\* the handles given to add_or_update_leetcode_username / add_or_update_codeforces_handle
Handles == {"h1", "h2"}
\* Ok(None) and Err(_) of fetch_codeforces_rating / fetch_leetcode_ranking
LookupNone == [kind |-> "none"]
LookupErr == [kind |-> "err"]
\* the arm `_ => None` of update_cp_ratings: None without a lookup
NoLookup == [kind |-> "unsupported"]

VARIABLES
    now,              \* the wall clock: the current instant
    tz,               \* offset of the machine-local zone (chrono::Local)
    firstDay,         \* the calendar: date 0 is day firstDay + 1 of its month
    horizon,          \* the last instant explored
    budget,           \* the API calls still explored: [mark, add]
    logging,          \* whether the history of a run (seed .. streaked) is recorded
    job,              \* the scheduled_task the loop calls: "attendance" (scheduled_task.rs) or "main" (main.rs)
    Member,           \* table Member: the set of member ids
    cp_platform,      \* table Member, column cp_platform: id -> platform selector
    rating,           \* table Member, column rating: id -> cached rating
    Attendance,       \* table Attendance: rows [id, date, timein, timeout, is_present]
    AttendanceStreak, \* table AttendanceStreak: rows [member_id, month, streak]
    stats,            \* tables leetcode_stats / codeforces_stats: platform -> rows [member_id, handle, stat]
    StreakUpdate,     \* table StreakUpdate: rows [id, streak, max_streak]
    call,             \* the update_streak call in flight, if any, and how the last one ended
    called,           \* history: the last mark_attendance call, its result, and the marks made so far
    proc,             \* per scheduler instance: program counter and locals
    runs,             \* history: per instance, the instants at which job runs started
    missed            \* history: per instance, local days whose midnight passed while not waiting

vars == <<now, tz, firstDay, horizon, budget, logging, job, Member, cp_platform, rating,
          Attendance, AttendanceStreak, stats, StreakUpdate, call, called, proc, runs, missed>>

(***************************************************************************)
(* chrono: dates and zones.                                                *)
(***************************************************************************)
\* NaiveDateTime of an instant in the zone with offset off
NaiveLocal(t, off) == t + off
\* NaiveDateTime::date(), as a day number
DateOf(naive) == naive \div MinutesPerDay
\* NaiveDateTime::time(), minutes since 00:00
TimeOf(naive) == naive % MinutesPerDay
\* Datelike::day(): day of the month, from 1
DayOfMonth(date) == ((date + firstDay) % DaysPerMonth) + 1
\* date_trunc('month', d): the month's number
MonthOf(date) == (date + firstDay) \div DaysPerMonth
\* Local::now().with_timezone(&Kolkata)
KolkataNaive(t) == NaiveLocal(t, Kolkata)

Min(a, b) == IF a <= b THEN a ELSE b

Perms(S) == {s \in [1..Cardinality(S) -> S] : \A a, b \in 1..Cardinality(S) : a # b => s[a] # s[b]}

(***************************************************************************)
(* Table Attendance.  A row is [id, date, timein, timeout, is_present];    *)
(* (id, date) is the key named by ON CONFLICT (id, date).                  *)
(***************************************************************************)
AttendanceKeyUsed(tbl, id, date) == \E r \in tbl : r.id = id /\ r.date = date

AttendanceRow(id, date, timein, timeout, is_present) ==
    [id |-> id, date |-> date, timein |-> timein, timeout |-> timeout, is_present |-> is_present]

\* the rows of one key
AttendanceRows(tbl, id, date) == {r \in tbl : r.id = id /\ r.date = date}

\* mutant: a row that is there is reset to the seeded values (ON CONFLICT DO UPDATE)
SeedInsertReset(tbl, id, date) ==
    (tbl \ AttendanceRows(tbl, id, date)) \cup {AttendanceRow(id, date, 0, 0, FALSE)}

\* INSERT INTO Attendance ... VALUES (id, today, 00:00, 00:00, false)
\*   ON CONFLICT (id, date) DO NOTHING
SeedInsert(tbl, id, date) ==
    IF AttendanceKeyUsed(tbl, id, date)
    THEN tbl
    ELSE tbl \cup {AttendanceRow(id, date, 0, 0, FALSE)}

\* SELECT COUNT(*) FROM Attendance WHERE id = $1 AND is_present = true AND date = $2
CountPresent(tbl, id, date) ==
    Cardinality({r \in tbl : r.id = id /\ r.is_present /\ r.date = date})

(***************************************************************************)
(* Table AttendanceStreak.  A row is [member_id, month, streak].           *)
(***************************************************************************)
StreakRows(tbl, member_id, month) ==
    {r \in tbl : r.member_id = member_id /\ r.month = month}

\* the key (member_id, month) of the table: an INSERT of a used key is rejected
StreakKeyUsed(tbl, member_id, month) == StreakRows(tbl, member_id, month) # {}

\* mutant: the month-start INSERT overwrites a row that is there (ON CONFLICT DO UPDATE)
InsertStreakClobber(tbl, member_id, month) ==
    {r \in tbl : ~(r.member_id = member_id /\ r.month = month)}
        \cup {[member_id |-> member_id, month |-> month, streak |-> 0]}

\* INSERT INTO AttendanceStreak (member_id, month, streak) VALUES ($1, month, 0);
\* the statement's error is dropped (let _ =)
InsertStreak(tbl, member_id, month) ==
    IF StreakKeyUsed(tbl, member_id, month)
    THEN tbl
    ELSE tbl \cup {[member_id |-> member_id, month |-> month, streak |-> 0]}

\* SELECT streak FROM AttendanceStreak WHERE member_id = $1 AND month = ... (fetch_optional)
SelectStreak(tbl, member_id, month) ==
    IF StreakRows(tbl, member_id, month) = {}
    THEN NoRow
    ELSE [none |-> FALSE, streak |-> (CHOOSE r \in StreakRows(tbl, member_id, month) : TRUE).streak]

\* mutant: the bound value is added to the stored streak (SET streak = streak + $1)
UpdateStreakAdd(tbl, member_id, month, value) ==
    {IF r.member_id = member_id /\ r.month = month THEN [r EXCEPT !.streak = @ + value] ELSE r : r \in tbl}

\* mutant: the UPDATE is not restricted to the member
UpdateStreakAnyMember(tbl, member_id, month, value) ==
    {IF r.month = month THEN [r EXCEPT !.streak = value] ELSE r : r \in tbl}

\* UPDATE AttendanceStreak SET streak = $1 WHERE member_id = $2 AND month = ...
UpdateStreak(tbl, member_id, month, value) ==
    {IF r.member_id = member_id /\ r.month = month THEN [r EXCEPT !.streak = value] ELSE r : r \in tbl}

\* mutant: the bound value is streak - 1
NextStreakDec(streak) == streak - 1

\* mutant: the bound value is the streak as read
NextStreakSame(streak) == streak

\* .bind(streak + 1)
NextStreak(streak) == streak + 1

(***************************************************************************)
(* update_attendance_streak: the dates of one call.                        *)
(***************************************************************************)
\* today = Local::now().with_timezone(&Kolkata).naive_local()
StreakToday(t) == KolkataNaive(t)
\* yesterday = today.checked_sub_signed(Duration::hours(12)).unwrap().date()
Yesterday(today) == DateOf(today - YesterdayHours * 60)
\* if today.day() == 1
IsMonthStart(today) == DayOfMonth(DateOf(today)) = 1
\* date_trunc('month', $2::date AT TIME ZONE 'Asia/Kolkata') of the bound `today`,
\* evaluated by a session whose zone is Asia/Kolkata; the INSERT, the SELECT and the
\* UPDATE of one call use the same expression on the same `today`
StreakMonth(today) == MonthOf(DateOf(today))

(***************************************************************************)
(* scheduled_task: the date bound to the seeded row.                       *)
(***************************************************************************)
\* today = Local::now().with_timezone(&Kolkata), bound to the date column
SeedDate(t) == DateOf(KolkataNaive(t))

(***************************************************************************)
(* schedule_task_at_midnight: the instant the loop sleeps until.           *)
(***************************************************************************)
\* mutant: midnight of the current day is taken
TomorrowSame(local) == DateOf(local)

\* tomorrow = now.date_naive().succ_opt().unwrap()
Tomorrow(local) == DateOf(local) + 1
\* next_midnight = tomorrow.and_time(00:00:00)
NextMidnight(local) == Tomorrow(local) * MinutesPerDay
\* Instant::now() + Duration::from_secs(duration_until_midnight.num_seconds() + 60)
WakeInstant(t, off) ==
    t + (NextMidnight(NaiveLocal(t, off)) - NaiveLocal(t, off)) + ExtraSleepSecs \div 60

(***************************************************************************)
(* State of one scheduler instance.                                        *)
(*   pc                 where the instance is                              *)
(*   wakeAt             the instant sleep_until waits for                  *)
(*   members, idx       the roster loaded by this run, and the position    *)
(*   today              scheduled_task's `today` (an instant)              *)
(*   s_today            update_attendance_streak's `today` (naive Kolkata) *)
(*   attendance         the result of the seeding INSERT of the loop body   *)
(*   rating             update_cp_ratings: the local `rating` (an Option)   *)
(*   fetched            history: the result of the external lookup          *)
(*   pre_rating         history: the member's rating before its lookup      *)
(*   present_attendance the result of the COUNT query                      *)
(*   existing_streak    the streak read by the SELECT                      *)
(*   pre                history: the member's row when its streak call began *)
(*   store_err          history: a statement of this streak call failed    *)
(*   roster_err         history: the last SELECT * FROM Member of             *)
(*                      scheduled_task failed                               *)
(*   log                history of the run: <<member, step, outcome>>      *)
(***************************************************************************)
Idle ==
    [pc |-> "off", wakeAt |-> 0, members |-> <<>>, idx |-> 0, today |-> 0,
     s_today |-> 0, present_attendance |-> 0, existing_streak |-> NoRow,
     pre |-> NoRow, store_err |-> FALSE, roster_err |-> FALSE, attendance |-> "none",
     fetched |-> LookupNone, rating |-> LookupNone, pre_rating |-> 0, log |-> <<>>]

\* the history of the run with one more event
Logged(p, member, step, outcome) ==
    IF logging THEN [p EXCEPT !.log = Append(@, <<member, step, outcome>>)] ELSE p

\* the member the loop `for member in members` is at
Cur(i) == proc[i].members[proc[i].idx]

\* the locals of update_attendance_streak before a call
ClearStreakLocals(p) ==
    [p EXCEPT !.s_today = 0, !.present_attendance = 0, !.existing_streak = NoRow,
              !.pre = NoRow, !.store_err = FALSE, !.attendance = "none"]

Others == <<tz, firstDay, horizon, budget, logging, job, Member, cp_platform, rating,
            StreakUpdate, call, called>>

(***************************************************************************)
(* Tables leetcode_stats and codeforces_stats.                             *)
(***************************************************************************)
\* the statistic columns of a stats table
StatColumns(platform) ==
    IF platform = "leetcode"
    THEN {"problems_solved", "easy_solved", "medium_solved", "hard_solved",
          "contests_participated", "best_rank", "total_contests"}
    ELSE {"codeforces_rating", "max_rating", "contests_participated"}

\* VALUES ($1, $2, 0, 0, ...): every statistic is 0
ZeroStat(platform) == [c \in StatColumns(platform) |-> 0]

StatsRow(member_id, handle, stat) == [member_id |-> member_id, handle |-> handle, stat |-> stat]

\* SELECT * FROM <platform>_stats WHERE member_id = $1
StatsRows(tbl, member_id) == {r \in tbl : r.member_id = member_id}

\* mutant: the conflicting row is replaced by the row of the INSERT
UpsertHandleReplace(tbl, platform, member_id, handle) ==
    (tbl \ StatsRows(tbl, member_id)) \cup {StatsRow(member_id, handle, ZeroStat(platform))}

\* INSERT INTO <platform>_stats (member_id, <handle>, <statistics>) VALUES ($1, $2, 0, ...)
\*   ON CONFLICT (member_id) DO UPDATE SET <handle> = $2
UpsertHandle(tbl, platform, member_id, handle) ==
    IF StatsRows(tbl, member_id) # {}
    THEN {IF r.member_id = member_id THEN [r EXCEPT !.handle = handle] ELSE r : r \in tbl}
    ELSE tbl \cup {StatsRow(member_id, handle, ZeroStat(platform))}

(***************************************************************************)
(* schedule_task_at_midnight                                               *)
(***************************************************************************)
\* let now = Local::now(); ... sleep_until(Instant::now() + sleep_duration)
Compute(i) ==
    /\ proc[i].pc = "compute"
    /\ proc' = [proc EXCEPT ![i] = [Idle EXCEPT !.pc = "sleep", !.wakeAt = WakeInstant(now, tz),
                                                !.roster_err = proc[i].roster_err]]
    /\ UNCHANGED <<now, Attendance, AttendanceStreak, stats, runs, missed, Others>>

\* sleep_until returns; scheduled_task(pool.clone()) is called
Wake(i) ==
    /\ proc[i].pc = "sleep"
    /\ now >= proc[i].wakeAt
    /\ proc' = [proc EXCEPT ![i].pc = IF job = "main" THEN "m_load" ELSE "load"]
    /\ runs' = [runs EXCEPT ![i] = Append(@, now)]
    /\ UNCHANGED <<now, Attendance, AttendanceStreak, stats, missed, Others>>

(***************************************************************************)
(* scheduled_task (src/attendance/scheduled_task.rs)                       *)
(***************************************************************************)
\* where the run goes after the member at idx: the next member, or back to the loop
AfterMember(p) ==
    IF p.idx < Len(p.members)
    THEN [ClearStreakLocals(p) EXCEPT !.pc = "seed", !.idx = p.idx + 1]
    ELSE [ClearStreakLocals(p) EXCEPT !.pc = "compute"]

\* SELECT * FROM Member; Ok(members) => today = now, Err => the run ends
LoadRoster(i) ==
    /\ proc[i].pc = "load"
    /\ \/ \E ms \in Perms(Member) :
            proc' = [proc EXCEPT ![i] =
                        IF Len(ms) = 0
                        THEN [@ EXCEPT !.pc = "compute", !.roster_err = FALSE]
                        ELSE [@ EXCEPT !.pc = "seed", !.members = ms, !.idx = 1, !.today = now,
                                       !.roster_err = FALSE]]
       \/ proc' = [proc EXCEPT ![i].pc = "compute", ![i].roster_err = TRUE]
    /\ UNCHANGED <<now, Attendance, AttendanceStreak, stats, runs, missed, Others>>

\* mutant: a failed INSERT ends the run (the error is propagated with ?)
SeedResultAbort(p, member, outcome) ==
    [Logged(p, member, "seed", outcome) EXCEPT
        !.pc = IF outcome = "err" THEN "compute" ELSE "leetcode", !.attendance = outcome]

\* mutant: the streak call is made right after the seeding, before the refresh
SeedResultSkip(p, member, outcome) ==
    [Logged(p, member, "seed", outcome) EXCEPT !.pc = "streak", !.attendance = outcome]

\* match attendance { Ok(_) => println!, Err(e) => eprintln! }: the loop body goes on
SeedResult(p, member, outcome) ==
    [Logged(p, member, "seed", outcome) EXCEPT !.pc = "leetcode", !.attendance = outcome]

\* INSERT INTO Attendance ... ON CONFLICT (id, date) DO NOTHING
Seed(i) ==
    /\ proc[i].pc = "seed"
    /\ \/ /\ Attendance' = SeedInsert(Attendance, Cur(i), SeedDate(proc[i].today))
          /\ proc' = [proc EXCEPT ![i] = SeedResult(@, Cur(i),
                          IF AttendanceKeyUsed(Attendance, Cur(i), SeedDate(proc[i].today))
                          THEN "exists" ELSE "created")]
       \/ /\ Attendance' = Attendance
          /\ proc' = [proc EXCEPT ![i] = SeedResult(@, Cur(i), "err")]
    /\ UNCHANGED <<now, AttendanceStreak, stats, runs, missed, Others>>

\* mutant: a failed lookup ends the run (the error is propagated with ?)
LookupResultAbort(p, member, platform, outcome, next) ==
    [Logged(p, member, platform, outcome) EXCEPT !.pc = IF outcome = "err" THEN "compute" ELSE next]

\* mutant: a failed lookup ends the processing of the member (continue)
LookupResultContinue(p, member, platform, outcome, next) ==
    IF outcome = "err"
    THEN AfterMember(Logged(p, member, platform, outcome))
    ELSE [Logged(p, member, platform, outcome) EXCEPT !.pc = next]

\* match fetch_..._stats(..).await { Ok(_) => println!, Err(e) => eprintln! }: the loop body goes on
LookupResult(p, member, platform, outcome, next) ==
    [Logged(p, member, platform, outcome) EXCEPT !.pc = next]

\* SELECT * FROM <platform>_stats WHERE member_id = $1; if let Ok(Some(row)) => external lookup
Lookup(i, platform, here, next) ==
    /\ proc[i].pc = here
    /\ \/ /\ StatsRows(stats[platform], Cur(i)) # {}
          /\ \E outcome \in {"ok", "err"} :
                proc' = [proc EXCEPT ![i] = LookupResult(@, Cur(i), platform, outcome, next)]
       \/ \* no row for the member, or the SELECT failed: nothing is looked up
          proc' = [proc EXCEPT ![i] = LookupResult(@, Cur(i), platform, "skip", next)]
    /\ UNCHANGED <<now, Attendance, AttendanceStreak, stats, runs, missed, Others>>

FetchLeetcode(i) == Lookup(i, "leetcode", "leetcode", "codeforces")

FetchCodeforces(i) == Lookup(i, "codeforces", "codeforces", "leaderboard")

\* match update_leaderboard(pool.clone()).await: Ok and Err are both only logged
UpdateLeaderboard(i) ==
    /\ proc[i].pc = "leaderboard"
    /\ proc' = [proc EXCEPT ![i] = [Logged(@, Cur(i), "leaderboard", "done") EXCEPT !.pc = "streak"]]
    /\ UNCHANGED <<now, Attendance, AttendanceStreak, stats, runs, missed, Others>>

(***************************************************************************)
(* update_attendance_streak(member.id, pool)                               *)
(***************************************************************************)
\* the locals once the clock is read
StreakEnter(p, t, tbl, member_id) ==
    [p EXCEPT !.pc = "count", !.s_today = StreakToday(t),
              !.pre = SelectStreak(tbl, member_id, StreakMonth(StreakToday(t)))]

\* today = now; if today.day() == 1 { let _ = INSERT ... streak 0 }
StreakMonthStart(i) ==
    /\ proc[i].pc = "streak"
    /\ LET p == StreakEnter(proc[i], now, AttendanceStreak, Cur(i))
           month == StreakMonth(p.s_today)
       IN  IF IsMonthStart(p.s_today)
           THEN \/ /\ AttendanceStreak' = InsertStreak(AttendanceStreak, Cur(i), month)
                   /\ proc' = [proc EXCEPT ![i] = p]
                \/ \* the store is unreachable: the error is dropped
                   /\ AttendanceStreak' = AttendanceStreak
                   /\ proc' = [proc EXCEPT ![i] = [p EXCEPT !.store_err = TRUE]]
           ELSE /\ AttendanceStreak' = AttendanceStreak
                /\ proc' = [proc EXCEPT ![i] = p]
    /\ UNCHANGED <<now, Attendance, stats, runs, missed, Others>>

\* match present_attendance: Ok(1) => read the streak; Ok(0), Ok(_), Err(_) => log and return
OnPresentAttendance(p, result) ==
    IF result = 1
    THEN [p EXCEPT !.pc = "read", !.present_attendance = result]
    ELSE [p EXCEPT !.pc = "sdone", !.present_attendance = result,
                   !.store_err = @ \/ result = CountErr]

\* mutant: an unexpected count, or a failed count, resets the member's streak
StreakAfterCountAnomalyReset(tbl, member_id, month, result) ==
    IF result \notin {0, 1} THEN UpdateStreak(tbl, member_id, month, 0) ELSE tbl

\* mutant: an absence (count 0) resets the member's streak
StreakAfterCountReset(tbl, member_id, month, result) ==
    IF result = 0 THEN UpdateStreak(tbl, member_id, month, 0) ELSE tbl

\* the streak table after the match arm of present_attendance: Ok(1) leaves it to the
\* UPDATE that follows; Ok(0), Ok(_) and Err(_) only log
StreakAfterCount(tbl, member_id, month, result) == tbl

\* SELECT COUNT(*) FROM Attendance WHERE id = $1 AND is_present = true AND date = yesterday
StreakCount(i) ==
    /\ proc[i].pc = "count"
    /\ \E result \in {CountPresent(Attendance, Cur(i), Yesterday(proc[i].s_today)), CountErr} :
          /\ proc' = [proc EXCEPT ![i] = OnPresentAttendance(@, result)]
          /\ AttendanceStreak' = StreakAfterCount(AttendanceStreak, Cur(i),
                                                   StreakMonth(proc[i].s_today), result)
    /\ UNCHANGED <<now, Attendance, stats, runs, missed, Others>>

\* mutant: a missing row is read as streak 0 (unwrap_or(0)) and written
OnExistingStreakDefault(p, result) ==
    IF result = StoreErr
    THEN [p EXCEPT !.pc = "sdone", !.store_err = TRUE]
    ELSE [p EXCEPT !.pc = "write",
                   !.existing_streak = IF result = NoRow THEN [none |-> FALSE, streak |-> 0]
                                       ELSE result]

\* match existing_streak: Ok(Some(streak)) => UPDATE; Ok(None), Err(_) => log and return
OnExistingStreak(p, result) ==
    IF result = StoreErr
    THEN [p EXCEPT !.pc = "sdone", !.store_err = TRUE]
    ELSE IF result = NoRow
         THEN [p EXCEPT !.pc = "sdone"]
         ELSE [p EXCEPT !.pc = "write", !.existing_streak = result]

\* SELECT streak FROM AttendanceStreak WHERE member_id = $1 AND month = month of today
StreakRead(i) ==
    /\ proc[i].pc = "read"
    /\ \E result \in {SelectStreak(AttendanceStreak, Cur(i), StreakMonth(proc[i].s_today)), StoreErr} :
          proc' = [proc EXCEPT ![i] = OnExistingStreak(@, result)]
    /\ UNCHANGED <<now, Attendance, AttendanceStreak, stats, runs, missed, Others>>

\* let _ = UPDATE AttendanceStreak SET streak = streak + 1 WHERE member_id = $2 AND month = ...
StreakWrite(i) ==
    /\ proc[i].pc = "write"
    /\ \/ /\ AttendanceStreak' = UpdateStreak(AttendanceStreak, Cur(i), StreakMonth(proc[i].s_today),
                                             NextStreak(proc[i].existing_streak.streak))
          /\ proc' = [proc EXCEPT ![i].pc = "sdone"]
       \/ /\ AttendanceStreak' = AttendanceStreak
          /\ proc' = [proc EXCEPT ![i].pc = "sdone", ![i].store_err = TRUE]
    /\ UNCHANGED <<now, Attendance, stats, runs, missed, Others>>

\* update_attendance_streak returns; the for loop takes the next member, or the run ends
StreakReturn(i) ==
    /\ proc[i].pc = "sdone"
    /\ proc' = [proc EXCEPT ![i] = AfterMember(Logged(@, Cur(i), "streak", "done"))]
    /\ UNCHANGED <<now, Attendance, AttendanceStreak, stats, runs, missed, Others>>

(***************************************************************************)
(* scheduled_task and update_cp_ratings (src/main.rs)                      *)
(***************************************************************************)
\* mutant: the roster is unwrapped, so a failed roster load panics and ends the task
ToCpRatingsPanic(p) ==
    IF p.roster_err
    THEN [p EXCEPT !.pc = "off"]
    ELSE [ClearStreakLocals(p) EXCEPT !.pc = "cp_load", !.members = <<>>, !.idx = 0]

\* the call of update_cp_ratings: the locals of the seeding loop are gone
ToCpRatings(p) ==
    [ClearStreakLocals(p) EXCEPT !.pc = "cp_load", !.members = <<>>, !.idx = 0]

\* SELECT * FROM Member; Ok(members) => today = now and the loop, Err => eprintln!
MainLoadRoster(i) ==
    /\ proc[i].pc = "m_load"
    /\ \/ \E ms \in Perms(Member) :
            proc' = [proc EXCEPT ![i] =
                        IF Len(ms) = 0
                        THEN ToCpRatings([@ EXCEPT !.roster_err = FALSE])
                        ELSE [@ EXCEPT !.pc = "m_seed", !.members = ms, !.idx = 1, !.today = now,
                                       !.roster_err = FALSE]]
       \/ proc' = [proc EXCEPT ![i] = ToCpRatings([@ EXCEPT !.roster_err = TRUE])]
    /\ UNCHANGED <<now, Attendance, AttendanceStreak, stats, runs, missed, Others>>

\* match attendance { Ok(_) => println!, Err(e) => eprintln! }; the next member, or update_cp_ratings
MainSeedResult(p, member, outcome) ==
    IF p.idx < Len(p.members)
    THEN [Logged(p, member, "seed", outcome) EXCEPT !.idx = p.idx + 1]
    ELSE ToCpRatings(Logged(p, member, "seed", outcome))

\* INSERT INTO Attendance ... ON CONFLICT (id, date) DO NOTHING RETURNING *
MainSeed(i) ==
    /\ proc[i].pc = "m_seed"
    /\ \/ /\ Attendance' = SeedInsert(Attendance, Cur(i), SeedDate(proc[i].today))
          /\ proc' = [proc EXCEPT ![i] = MainSeedResult(@, Cur(i),
                          IF AttendanceKeyUsed(Attendance, Cur(i), SeedDate(proc[i].today))
                          THEN "exists" ELSE "created")]
       \/ /\ Attendance' = Attendance
          /\ proc' = [proc EXCEPT ![i] = MainSeedResult(@, Cur(i), "err")]
    /\ UNCHANGED <<now, AttendanceStreak, stats, runs, missed, Others>>

\* update_cp_ratings: SELECT * FROM Member; Err => eprintln! and return
CpLoadRoster(i) ==
    /\ proc[i].pc = "cp_load"
    /\ \/ \E ms \in Perms(Member) :
            proc' = [proc EXCEPT ![i] =
                        IF Len(ms) = 0
                        THEN [@ EXCEPT !.pc = "compute"]
                        ELSE [@ EXCEPT !.pc = "cp_fetch", !.members = ms, !.idx = 1]]
       \/ proc' = [proc EXCEPT ![i].pc = "compute"]
    /\ UNCHANGED <<now, Attendance, AttendanceStreak, stats, runs, missed, Others>>

\* the results fetch_codeforces_rating / fetch_leetcode_ranking may give
LookupResults == {[kind |-> "some", rating |-> v] : v \in Ratings} \cup {LookupNone, LookupErr}

\* mutant: a lookup without a rating is taken to be the default rating 0
OkFlattenDefault(result) ==
    IF result.kind = "some" THEN result ELSE [kind |-> "some", rating |-> 0]

\* .ok().flatten(): Ok(Some(v)) => Some(v); Ok(None) and Err(_) => None
OkFlatten(result) ==
    IF result.kind = "some" THEN result ELSE LookupNone

\* if let Some(rating) = rating { UPDATE ... } ; otherwise the loop body ends
OnRating(p, member, result) ==
    [Logged(p, member, "rating", result.kind) EXCEPT
        !.pc = IF OkFlatten(result).kind = "some" THEN "cp_update" ELSE "cp_done",
        !.rating = OkFlatten(result),
        !.fetched = result,
        !.pre_rating = rating[member],
        !.store_err = FALSE]

\* mutant: the default arm of the match looks the member up as well
LookupIssuedAlways(platform) == TRUE

\* the arms "Codeforces" and "LeetCode" of the match call fetch_codeforces_rating / fetch_leetcode_ranking
LookupIssued(platform) == platform \in {"Codeforces", "LeetCode"}

\* let rating = match member.cp_platform.as_str() { "Codeforces" => .., "LeetCode" => .., _ => None }
CpFetch(i) ==
    /\ proc[i].pc = "cp_fetch"
    /\ IF LookupIssued(cp_platform[Cur(i)])
       THEN \E result \in LookupResults : proc' = [proc EXCEPT ![i] = OnRating(@, Cur(i), result)]
       ELSE proc' = [proc EXCEPT ![i] = OnRating(@, Cur(i), NoLookup)]
    /\ UNCHANGED <<now, Attendance, AttendanceStreak, stats, runs, missed, Others>>

\* UPDATE Member SET rating = $1 WHERE id = $2; Ok(_) => println!, Err(e) => eprintln!
CpUpdate(i) ==
    /\ proc[i].pc = "cp_update"
    /\ \/ /\ rating' = [rating EXCEPT ![Cur(i)] = proc[i].rating.rating]
          /\ proc' = [proc EXCEPT ![i].pc = "cp_done"]
       \/ /\ rating' = rating
          /\ proc' = [proc EXCEPT ![i].pc = "cp_done", ![i].store_err = TRUE]
    /\ UNCHANGED <<now, tz, firstDay, horizon, budget, logging, job, Member, cp_platform,
                   Attendance, AttendanceStreak, stats, StreakUpdate, call, called, runs, missed>>

\* for member in members: the next member, or update_cp_ratings returns to the loop
CpNext(i) ==
    /\ proc[i].pc = "cp_done"
    /\ proc' = [proc EXCEPT ![i] =
                    IF proc[i].idx < Len(proc[i].members)
                    THEN [@ EXCEPT !.pc = "cp_fetch", !.idx = proc[i].idx + 1]
                    ELSE [@ EXCEPT !.pc = "compute"]]
    /\ UNCHANGED <<now, Attendance, AttendanceStreak, stats, runs, missed, Others>>

(***************************************************************************)
(* The clock.  Time passes while a statement or a lookup is awaited; a     *)
(* sleeping instance is woken at its instant, so the clock does not pass   *)
(* the earliest pending wake-up.                                           *)
(***************************************************************************)
Sleeping == {i \in Instances : proc[i].pc = "sleep"}

Running == {i \in Instances : proc[i].pc \notin {"sleep", "off"}}

EarliestWake == CHOOSE w \in {proc[i].wakeAt : i \in Sleeping} :
                    \A i \in Sleeping : w <= proc[i].wakeAt

\* the instant of 00:00 machine-local time of local day d
LocalMidnight(d) == d * MinutesPerDay - tz

\* the steps that read the clock (Local::now())
ClockReaders == {"compute", "load", "streak", "m_load"}

\* The clock is read only by Compute, LoadRoster, MainLoadRoster, StreakMonthStart and
\* mark_attendance, so
\* time that passes during a run is let pass right before an instance reads the clock.
Tick(d) ==
    LET target == IF Sleeping = {} THEN now + d ELSE Min(now + d, EarliestWake)
    IN  /\ Running = {} \/ \E i \in Running : proc[i].pc \in ClockReaders
        /\ target > now
        /\ target <= horizon
        /\ now' = target
        /\ missed' = [i \in Instances |->
                        IF i \in Running
                        THEN missed[i] \cup {dd \in Dates : now < LocalMidnight(dd) /\ LocalMidnight(dd) <= target}
                        ELSE missed[i]]
        /\ UNCHANGED <<Attendance, AttendanceStreak, stats, proc, runs, Others>>

(***************************************************************************)
(* GraphQL mutations (src/graphql/mutations.rs)                            *)
(***************************************************************************)
\* mutant: a missing record is created by the call (an upsert)
MarkUpdateUpsert(tbl, id, date, current_time, is_present) ==
    IF AttendanceKeyUsed(tbl, id, date)
    THEN {IF r.id = id /\ r.date = date
          THEN [r EXCEPT !.timein = IF r.timein = 0 THEN current_time ELSE r.timein,
                         !.timeout = current_time,
                         !.is_present = is_present]
          ELSE r : r \in tbl}
    ELSE tbl \cup {AttendanceRow(id, date, current_time, current_time, is_present)}

\* UPDATE Attendance SET timein = CASE WHEN timein = '00:00:00' THEN $1 ELSE timein END,
\*   timeout = $1, is_present = $2 WHERE id = $3 AND date = $4
MarkUpdate(tbl, id, date, current_time, is_present) ==
    {IF r.id = id /\ r.date = date
     THEN [r EXCEPT !.timein = IF r.timein = 0 THEN current_time ELSE r.timein,
                    !.timeout = current_time,
                    !.is_present = is_present]
     ELSE r : r \in tbl}

\* no mark_attendance call has been recorded
NotCalled == [result |-> "none", marks |-> {}]

\* hex::decode(..)?, mac.verify_slice(..) and fetch_one(..)?: the Result the mutation returns
MarkResult(tbl, id, date, valid) ==
    IF ~valid THEN "err"
    ELSE IF AttendanceKeyUsed(tbl, id, date) THEN "ok" ELSE "err"

\* mark_attendance(id, date, is_present, hmac_signature); valid: the signature is hex and verifies
mark_attendance(id, date, is_present, valid) ==
    /\ budget.mark > 0
    /\ budget' = [budget EXCEPT !.mark = @ - 1]
    /\ Attendance' = IF valid
                     THEN MarkUpdate(Attendance, id, date, TimeOf(KolkataNaive(now)), is_present)
                     ELSE Attendance
    /\ called' = IF logging
                 THEN [result |-> MarkResult(Attendance, id, date, valid), id |-> id, date |-> date,
                       is_present |-> is_present, valid |-> valid,
                       current_time |-> TimeOf(KolkataNaive(now)),
                       before |-> AttendanceRows(Attendance, id, date),
                       marks |-> IF MarkResult(Attendance, id, date, valid) = "ok"
                                 THEN called.marks \cup {<<id, date, TimeOf(KolkataNaive(now))>>}
                                 ELSE called.marks]
                 ELSE called
    /\ UNCHANGED <<now, tz, firstDay, horizon, logging, job, Member, cp_platform, rating,
                   AttendanceStreak, stats, StreakUpdate, call, proc, runs, missed>>

\* mutant: the key does not stop the INSERT
AddInsertAlways(tbl, row) == tbl \cup {row}

\* INSERT INTO Attendance (id, date, timein, timeout, is_present) VALUES (...): a used key is an error
AddInsert(tbl, row) ==
    IF AttendanceKeyUsed(tbl, row.id, row.date) THEN tbl ELSE tbl \cup {row}

\* add_attendance(id, date, timein, timeout, is_present)
add_attendance(id, date, timein, timeout, is_present) ==
    /\ budget.add > 0
    /\ budget' = [budget EXCEPT !.add = @ - 1]
    /\ Attendance' = AddInsert(Attendance, AttendanceRow(id, date, timein, timeout, is_present))
    /\ UNCHANGED <<now, tz, firstDay, horizon, logging, job, Member, cp_platform, rating,
                   AttendanceStreak, stats, StreakUpdate, call, called, proc, runs, missed>>

\* add_or_update_leetcode_username(member_id, username)
add_or_update_leetcode_username(member_id, username) ==
    /\ stats' = [stats EXCEPT !["leetcode"] = UpsertHandle(@, "leetcode", member_id, username)]
    /\ UNCHANGED <<now, Attendance, AttendanceStreak, proc, runs, missed, Others>>

\* add_or_update_codeforces_handle(member_id, handle)
add_or_update_codeforces_handle(member_id, handle) ==
    /\ stats' = [stats EXCEPT !["codeforces"] = UpsertHandle(@, "codeforces", member_id, handle)]
    /\ UNCHANGED <<now, Attendance, AttendanceStreak, proc, runs, missed, Others>>

(***************************************************************************)
(* update_streak(id, has_sent_update), on table StreakUpdate.  The rows    *)
(* the mutation writes hold numbers, so unwrap_or(0) never sees a NULL.    *)
(***************************************************************************)
\* no update_streak call is in flight and none has been made
NoCall == [pc |-> "idle", id |-> 0, has_sent_update |-> FALSE, member |-> NoRow, err |-> FALSE]

StreakUpdateRow(id, streak, max_streak) == [id |-> id, streak |-> streak, max_streak |-> max_streak]

StreakUpdateRows(tbl, id) == {r \in tbl : r.id = id}

\* SELECT id, streak, max_streak FROM StreakUpdate WHERE id = $1 (fetch_optional)
SelectStreakUpdate(tbl, id) ==
    IF StreakUpdateRows(tbl, id) = {} THEN NoRow ELSE CHOOSE r \in StreakUpdateRows(tbl, id) : TRUE

Max(a, b) == IF a >= b THEN a ELSE b

\* mutant: the longest streak is not raised
UpdatedStreakKeepMax(member, has_sent_update) ==
    IF has_sent_update
    THEN <<member.streak + 1, member.max_streak>>
    ELSE <<0, member.max_streak>>

\* let (updated_streak, updated_max_streak) = if has_sent_update { .. } else { (0, max_streak) }
UpdatedStreak(member, has_sent_update) ==
    IF has_sent_update
    THEN <<member.streak + 1, Max(member.streak + 1, member.max_streak)>>
    ELSE <<0, member.max_streak>>

\* UPDATE StreakUpdate SET streak = $1, max_streak = $2 WHERE id = $3
StoreStreakUpdate(tbl, id, updated) ==
    {IF r.id = id THEN [r EXCEPT !.streak = updated[1], !.max_streak = updated[2]] ELSE r : r \in tbl}

\* mutant: a new row starts from the first update
InsertStreakUpdateCounted(tbl, id, has_sent_update) ==
    tbl \cup {IF has_sent_update THEN StreakUpdateRow(id, 1, 1) ELSE StreakUpdateRow(id, 0, 0)}

\* INSERT INTO StreakUpdate (id, streak, max_streak) VALUES ($1, 0, 0)
InsertStreakUpdate(tbl, id, has_sent_update) == tbl \cup {StreakUpdateRow(id, 0, 0)}

\* update_streak, first statement: the SELECT; Err(_) is returned with ?
update_streak(id, has_sent_update) ==
    /\ call.pc = "idle"
    /\ has_sent_update => \A r \in StreakUpdateRows(StreakUpdate, id) : r.streak < MaxStreak
    /\ \/ call' = [pc |-> "selected", id |-> id, has_sent_update |-> has_sent_update,
                   member |-> SelectStreakUpdate(StreakUpdate, id), err |-> FALSE]
       \/ call' = [pc |-> "idle", id |-> id, has_sent_update |-> has_sent_update,
                   member |-> NoRow, err |-> TRUE]
    /\ UNCHANGED <<now, tz, firstDay, horizon, budget, logging, job, Member, cp_platform, rating,
                   Attendance, AttendanceStreak, stats, StreakUpdate, called, proc, runs, missed>>

\* update_streak, second statement: Some(member) => UPDATE, None => INSERT; Err(_) is returned with ?
update_streak_store ==
    /\ call.pc = "selected"
    /\ \/ /\ StreakUpdate' =
                IF call.member # NoRow
                THEN StoreStreakUpdate(StreakUpdate, call.id,
                                       UpdatedStreak(call.member, call.has_sent_update))
                ELSE InsertStreakUpdate(StreakUpdate, call.id, call.has_sent_update)
          /\ call' = [call EXCEPT !.pc = "idle"]
       \/ /\ StreakUpdate' = StreakUpdate
          /\ call' = [call EXCEPT !.pc = "idle", !.err = TRUE]
    /\ UNCHANGED <<now, tz, firstDay, horizon, budget, logging, job, Member, cp_platform, rating,
                   Attendance, AttendanceStreak, stats, called, proc, runs, missed>>

(***************************************************************************)
(* Specifications.                                                         *)
(***************************************************************************)
\* the rows of the stats tables: every member has linked LeetCode, member 1 also Codeforces
InitStats ==
    [p \in Platforms |->
        {StatsRow(m, "h1", ZeroStat(p)) : m \in {n \in MemberIds : p = "leetcode" \/ n = 1}}]

InitCommon ==
    /\ tz \in LocalOffsets
    /\ \E start \in StartTimes : now = start - tz
    /\ firstDay \in 0..(DaysPerMonth - 1)
    /\ Attendance = {}
    /\ AttendanceStreak = {}
    /\ stats = InitStats
    /\ StreakUpdate = {}
    /\ call = NoCall
    /\ called = NotCalled
    /\ runs = [i \in Instances |-> <<>>]
    /\ missed = [i \in Instances |-> {}]

\* the process runs the job of src/attendance/scheduled_task.rs, which leaves cp_platform and rating alone
InitAttendanceJob ==
    /\ job = "attendance"
    /\ cp_platform = [m \in MemberIds |-> "Codeforces"]
    /\ rating \in [MemberIds -> StoredRatings]

\* a process that has entered the loop of schedule_task_at_midnight and waits
Waiting == [Idle EXCEPT !.pc = "sleep", !.wakeAt = WakeInstant(now, tz)]

\* one process runs the scheduler, for one member
Init ==
    /\ InitCommon
    /\ InitAttendanceJob
    /\ horizon = EndOfDay(MaxDay)
    /\ budget = [mark |-> MaxMarks, add |-> MaxAdds]
    /\ logging = FALSE
    /\ Member = {1}
    /\ proc = [i \in Instances |-> IF i = 1 THEN Waiting ELSE Idle]

\* one process runs the scheduler in Asia/Kolkata, for two members; the history of each run is kept
InitPair ==
    /\ InitCommon
    /\ InitAttendanceJob
    /\ tz = Kolkata
    /\ horizon = EndOfDay(MaxDay - 1)
    /\ budget = [mark |-> 0, add |-> MaxAdds]
    /\ logging = TRUE
    /\ Member = MemberIds
    /\ proc = [i \in Instances |-> IF i = 1 THEN Waiting ELSE Idle]

\* two processes run the scheduler at once in Asia/Kolkata, for one member
InitTwo ==
    /\ InitCommon
    /\ InitAttendanceJob
    /\ tz = Kolkata
    /\ horizon = EndOfDay(MaxDay - 2)
    /\ budget = [mark |-> MaxMarks, add |-> MaxAdds]
    /\ logging = FALSE
    /\ Member = {1}
    /\ proc = [i \in Instances |-> Waiting]

Job(i) ==
    \/ Compute(i)
    \/ Wake(i)
    \/ LoadRoster(i)
    \/ Seed(i)
    \/ FetchLeetcode(i)
    \/ FetchCodeforces(i)
    \/ UpdateLeaderboard(i)
    \/ StreakMonthStart(i)
    \/ StreakCount(i)
    \/ StreakRead(i)
    \/ StreakWrite(i)
    \/ StreakReturn(i)

\* the calls are made for the current date (in Asia/Kolkata) of a member
MarkApi ==
    \E id \in Member, is_present \in BOOLEAN, valid \in BOOLEAN :
        mark_attendance(id, SeedDate(now), is_present, valid)

AddApi ==
    \E id \in Member, t \in AddTimes, is_present \in BOOLEAN :
        add_attendance(id, SeedDate(now), t[1], t[2], is_present)

NextJob ==
    \/ \E i \in Instances : Job(i)
    \/ \E d \in Durations : Tick(d)

Next ==
    \/ NextJob
    \/ MarkApi
    \/ AddApi

\* the job, and records added by hand
NextPair ==
    \/ NextJob
    \/ AddApi

Spec == Init /\ [][Next]_vars

SpecPair == InitPair /\ [][NextPair]_vars

SpecTwo == InitTwo /\ [][Next]_vars

\* one process runs the scheduler of src/main.rs, for two members; the history is kept
InitMain ==
    /\ InitCommon
    /\ job = "main"
    /\ cp_platform \in [MemberIds -> CpPlatforms]
    /\ rating \in [MemberIds -> StoredRatings]
    /\ horizon = EndOfDay(MaxDay - 1)
    /\ budget = [mark |-> 0, add |-> 0]
    /\ logging = TRUE
    /\ Member = MemberIds
    /\ proc = [i \in Instances |-> IF i = 1 THEN Waiting ELSE Idle]

MainJob(i) ==
    \/ Compute(i)
    \/ Wake(i)
    \/ MainLoadRoster(i)
    \/ MainSeed(i)
    \/ CpLoadRoster(i)
    \/ CpFetch(i)
    \/ CpUpdate(i)
    \/ CpNext(i)

NextMain ==
    \/ \E i \in Instances : MainJob(i)
    \/ \E d \in Durations : Tick(d)

SpecMain == InitMain /\ [][NextMain]_vars

\* one process runs either job in Asia/Kolkata for member 2, who has linked LeetCode only
InitBoth ==
    /\ InitCommon
    /\ tz = Kolkata
    /\ job \in {"attendance", "main"}
    /\ cp_platform \in [MemberIds -> {"AtCoder", "LeetCode"}]
    /\ rating \in [MemberIds -> StoredRatings]
    /\ horizon = EndOfDay(MaxDay - 1)
    /\ budget = [mark |-> 0, add |-> MaxAdds]
    /\ logging = TRUE
    /\ Member = {2}
    /\ proc = [i \in Instances |-> IF i = 1 THEN Waiting ELSE Idle]

NextBoth ==
    \/ NextPair
    \/ \E i \in Instances : MainLoadRoster(i) \/ MainSeed(i) \/ CpLoadRoster(i)
                                \/ CpFetch(i) \/ CpUpdate(i) \/ CpNext(i)

SpecBoth == InitBoth /\ [][NextBoth]_vars

\* the GraphQL mutations on the stats tables and on StreakUpdate, one call at a time;
\* member 1 has linked both platforms and the nightly refresh has filled its statistics
RefreshedStat(platform) == [c \in StatColumns(platform) |-> 7]

InitApi ==
    /\ tz = Kolkata
    /\ now = 0 - tz
    /\ firstDay = 0
    /\ Attendance = {}
    /\ AttendanceStreak = {}
    /\ stats = [p \in Platforms |-> {StatsRow(1, "h1", RefreshedStat(p))}]
    /\ StreakUpdate = {}
    /\ call = NoCall
    /\ called = NotCalled
    /\ runs = [i \in Instances |-> <<>>]
    /\ missed = [i \in Instances |-> {}]
    /\ InitAttendanceJob
    /\ horizon = now
    /\ budget = [mark |-> 0, add |-> 0]
    /\ logging = FALSE
    /\ Member = MemberIds
    /\ proc = [i \in Instances |-> Idle]

LeetcodeApi ==
    \E member_id \in Member, username \in Handles :
        add_or_update_leetcode_username(member_id, username)

CodeforcesApi ==
    \E member_id \in Member, handle \in Handles :
        add_or_update_codeforces_handle(member_id, handle)

StreakApi ==
    \/ \E id \in Member, has_sent_update \in BOOLEAN : update_streak(id, has_sent_update)
    \/ update_streak_store

NextApi ==
    \/ LeetcodeApi
    \/ CodeforcesApi
    \/ StreakApi

SpecApi == InitApi /\ [][NextApi]_vars

\* one process runs the scheduler of src/main.rs, for one member
InitLive ==
    /\ InitCommon
    /\ job = "main"
    /\ cp_platform \in [MemberIds -> {"Codeforces"}]
    /\ rating \in [MemberIds -> StoredRatings]
    /\ horizon = EndOfDay(MaxDay)
    /\ budget = [mark |-> 0, add |-> 0]
    /\ logging = FALSE
    /\ Member = {1}
    /\ proc = [i \in Instances |-> IF i = 1 THEN Waiting ELSE Idle]

\* Every awaited statement, lookup and sleep of the spawned task returns, and the clock
\* goes on: the runtime polls the task whenever what it awaits is ready.
Fairness ==
    /\ \A i \in Instances : WF_vars(MainJob(i))
    /\ WF_vars(\E d \in Durations : Tick(d))

SpecLive == InitLive /\ [][NextMain]_vars /\ Fairness

(***************************************************************************)
(* Properties.                                                             *)
(***************************************************************************)
\* instance i has finished the statements of one update_attendance_streak call
AtStreakEnd(i) == proc[i].pc = "sdone"

\* the member's row for the month of the call's `today`, as the table holds it now
RowNow(i) == SelectStreak(AttendanceStreak, Cur(i), StreakMonth(proc[i].s_today))

Some(n) == [none |-> FALSE, streak |-> n]

\* C1: Streak reset law, no-row case.  A streak call made on the 1st of a month for a
\* member without a row for that month (every statement succeeding) ends with the
\* counter at 0, also when the record of the previous day is present: the counter is
\* not incremented by the call that created it.
C1_ResetCreatesZero ==
    \A i \in Instances :
        (/\ AtStreakEnd(i)
         /\ IsMonthStart(proc[i].s_today)
         /\ Yesterday(proc[i].s_today) = DateOf(proc[i].s_today) - 1
         /\ proc[i].pre = NoRow
         /\ ~proc[i].store_err)
        => RowNow(i) = Some(0)

\* C2: Streak increment law.  A streak call for a member whose row of the current month
\* holds n, and which counts exactly one present record for (member, yesterday), ends
\* with the row holding n + 1 (every statement of the call succeeding).
C2_IncrementLaw ==
    \A i \in Instances :
        (/\ AtStreakEnd(i)
         /\ proc[i].pre # NoRow
         /\ proc[i].present_attendance = 1
         /\ ~proc[i].store_err)
        => RowNow(i) = Some(proc[i].pre.streak + 1)

\* a mid-month call has taken a row from 0 to 1
C2_Witness ==
    \E i \in Instances :
        /\ AtStreakEnd(i)
        /\ ~IsMonthStart(proc[i].s_today)
        /\ proc[i].pre = Some(0)
        /\ proc[i].present_attendance = 1
        /\ ~proc[i].store_err
        /\ RowNow(i) = Some(1)

\* C5: Absence does not reset the streak.  A streak call that is not made on the 1st of
\* the month and counts zero present records for (member, yesterday) leaves the
\* member's row of the current month as it was.
C5_AbsenceKeepsStreak ==
    \A i \in Instances :
        (/\ AtStreakEnd(i)
         /\ ~IsMonthStart(proc[i].s_today)
         /\ proc[i].pre # NoRow
         /\ proc[i].present_attendance = 0
         /\ ~proc[i].store_err)
        => RowNow(i) = proc[i].pre

\* a call that found no present record has ended with a counter above 0 still in place
C5_Witness ==
    \E i \in Instances :
        /\ AtStreakEnd(i)
        /\ ~IsMonthStart(proc[i].s_today)
        /\ proc[i].pre # NoRow
        /\ proc[i].pre.streak > 0
        /\ proc[i].present_attendance = 0
        /\ ~proc[i].store_err
        /\ RowNow(i) = proc[i].pre

\* the scheduler instances that exist
Started == {i \in Instances : proc[i].pc # "off"}

\* the machine-local day of an instant
LocalDay(t) == DateOf(NaiveLocal(t, tz))

\* the number of job runs instance i started on machine-local day d
RunsOn(i, d) == Cardinality({k \in 1..Len(runs[i]) : LocalDay(runs[i][k]) = d})

\* the instant 60 s after the midnight that begins machine-local day d
WakeOf(d) == LocalMidnight(d) + ExtraSleepSecs \div 60

\* the midnight of day d lies after the start of the loop (on local day 0), and the
\* wake-up that belongs to it is over
Passed(i, d) ==
    /\ d >= 1
    /\ \/ now > WakeOf(d)
       \/ now = WakeOf(d) /\ proc[i].pc # "sleep"

\* C6 as claimed: for every midnight that passes after the loop starts exactly one job
\* run is started for that day, whatever the duration of the previous run.
C6_OnceEveryMidnight ==
    \A i \in Started : \A d \in Dates : Passed(i, d) => RunsOn(i, d) = 1

\* C6 as amended: no machine-local day has two runs; a day whose midnight passed while
\* the loop was waiting has exactly one run; a day whose midnight passed while the
\* previous run (or the recomputation of the wait) was not finished has none.
C6_OncePerWaitedMidnight ==
    \A i \in Started : \A d \in Dates :
        /\ RunsOn(i, d) <= 1
        /\ Passed(i, d) => RunsOn(i, d) = (IF d \in missed[i] THEN 0 ELSE 1)

\* a run has outlasted the following midnight, and the run of the day before took place
C6_Witness ==
    \E i \in Started : \E d \in Dates :
        /\ Passed(i, d)
        /\ d \in missed[i]
        /\ RunsOn(i, d) = 0
        /\ RunsOn(i, d - 1) = 1

\* the steps of update_attendance_streak after the clock is read
InStreakCall == {"count", "read", "write", "sdone"}

\* C7: Timezone consistency within one run.  The date the seeder uses as `today` and
\* the dates the streak call of every member of that run uses as `today` and as month
\* start come from one instant taken at the top of the run: they do not disagree.
C7_OneInstantPerRun ==
    \A i \in Started :
        proc[i].pc \in InStreakCall =>
            /\ DateOf(proc[i].s_today) = SeedDate(proc[i].today)
            /\ StreakMonth(proc[i].s_today) = MonthOf(SeedDate(proc[i].today))

SeedStep(i) == proc[i].pc = "seed" /\ proc'[i].pc = "leetcode"

\* C3: Idempotent seeding.  A seeding INSERT for a (member, date) that has a record is a
\* no-op: the table is as it was, so the record keeps its presence flag and its times;
\* and a seeding INSERT that succeeds leaves exactly one record for the key.
C3_SeedIdempotent ==
    [][\A i \in Instances :
          SeedStep(i) =>
              LET id == Cur(i)
                  date == SeedDate(proc[i].today)
              IN  /\ AttendanceKeyUsed(Attendance, id, date) => Attendance' = Attendance
                  /\ proc'[i].attendance # "err" =>
                         Cardinality(AttendanceRows(Attendance', id, date)) = 1
                  /\ proc'[i].attendance = "created" =>
                         AttendanceRow(id, date, 0, 0, FALSE) \in Attendance']_vars

\* a record added as present (and never marked) has met the seeding INSERT of its key,
\* and is still present with its times
C3_Witness ==
    \E i \in Instances :
        /\ proc[i].pc = "leetcode"
        /\ proc[i].attendance = "exists"
        /\ budget.mark = MaxMarks
        /\ \E t \in AddTimes :
              AttendanceRows(Attendance, Cur(i), SeedDate(proc[i].today))
                  = {AttendanceRow(Cur(i), SeedDate(proc[i].today), t[1], t[2], TRUE)}

\* C8: At most one attendance record per (member, date), in every reachable state of
\* two scheduler instances running the job at once with add_attendance and
\* mark_attendance calls in between.
C8_OneRecordPerMemberDate ==
    \A r1, r2 \in Attendance : (r1.id = r2.id /\ r1.date = r2.date) => r1 = r2

\* both instances have seeded the same (member, date), both API calls have been made,
\* and the key has one record
C8_Witness ==
    \E d \in Dates : \E m \in Member :
        /\ \A i \in Instances :
              /\ proc[i].pc \in {"leetcode", "codeforces", "leaderboard", "streak"}
              /\ Cur(i) = m
              /\ SeedDate(proc[i].today) = d
              /\ proc[i].attendance \in {"created", "exists"}
        /\ \E i \in Instances : proc[i].attendance = "created"
        /\ budget = [mark |-> 0, add |-> 0]
        /\ Cardinality(AttendanceRows(Attendance, m, d)) = 1

\* the run of instance i is over
RunEnded(i) == proc[i].pc = "compute" /\ proc[i].members # <<>>

\* the events of the run of p about one member and one step
Events(p, member, steps) ==
    {k \in 1..Len(p.log) : p.log[k][1] = member /\ p.log[k][2] \in steps}

\* an external lookup for the member has failed in the run
LookupFailed(p, member) ==
    \E k \in Events(p, member, Platforms) : p.log[k][3] = "err"

\* C4: Isolation.  In a run over a roster with members A and B, in either order, in
\* which a lookup for A fails, B's seeding, both of B's stats lookups, the leaderboard
\* update and B's streak step are all executed, and B's seeding has taken effect: B has
\* its record of the day (unless B's own INSERT failed).
C4_Isolation ==
    \A i \in Started :
        RunEnded(i) =>
            \A a, b \in Member :
                (a # b /\ LookupFailed(proc[i], a)) =>
                    /\ \A step \in {"seed", "leetcode", "codeforces", "leaderboard", "streak"} :
                          Cardinality(Events(proc[i], b, {step})) = 1
                    /\ (\A k \in Events(proc[i], b, {"seed"}) : proc[i].log[k][3] # "err")
                          => AttendanceKeyUsed(Attendance, b, SeedDate(proc[i].today))

\* a run has ended in which the lookup for the first member of the roster failed and
\* the second member was seeded, looked up and streaked
C4_Witness ==
    \E i \in Started :
        /\ RunEnded(i)
        /\ Len(proc[i].members) = 2
        /\ LookupFailed(proc[i], proc[i].members[1])
        /\ \E k \in Events(proc[i], proc[i].members[2], {"seed"}) : proc[i].log[k][3] = "created"
        /\ \E k \in Events(proc[i], proc[i].members[2], {"leetcode"}) : proc[i].log[k][3] = "ok"
        /\ Events(proc[i], proc[i].members[2], {"streak"}) # {}
        /\ AttendanceKeyUsed(Attendance, proc[i].members[2], SeedDate(proc[i].today))

\* C10: Leaderboard refresh outcome per member.  When the lookup gives Some(v) (and the
\* UPDATE succeeds) the member's rating is v; when it gives None or fails the rating is
\* as it was; and in each case the batch goes on: at its end every member of the roster
\* has had its lookup.
C10_RatingOutcome ==
    \A i \in Started :
        /\ proc[i].pc = "cp_done" =>
              rating[Cur(i)] = (IF proc[i].fetched.kind = "some" /\ ~proc[i].store_err
                                THEN proc[i].fetched.rating
                                ELSE proc[i].pre_rating)
        /\ (job = "main" /\ RunEnded(i)) =>
              /\ Len(proc[i].members) = Cardinality(Member)
              /\ \A k \in 1..Len(proc[i].members) :
                    Cardinality(Events(proc[i], proc[i].members[k], {"rating"})) = 1

\* a batch has ended in which the lookup of the first member failed and left its rating
\* as it was, and the lookup of the second member gave a rating, which is now stored
C10_Witness ==
    \E i \in Started :
        /\ job = "main"
        /\ RunEnded(i)
        /\ Len(proc[i].members) = 2
        /\ \E k \in Events(proc[i], proc[i].members[1], {"rating"}) : proc[i].log[k][3] = "err"
        /\ rating[proc[i].members[1]] \in StoredRatings
        /\ \E k \in Events(proc[i], proc[i].members[2], {"rating"}) : proc[i].log[k][3] = "some"
        /\ rating[proc[i].members[2]] \in Ratings

\* C11: The scheduler loop never stops.  Whatever the outcome of a job run (a failed
\* roster load included), the loop recomputes the wait and sleeps again, and every sleep
\* whose wake-up instant lies within the explored time is followed by another job run.
C11_AlwaysAnotherRun ==
    \A i \in Instances :
        /\ (proc[i].pc \notin {"off", "sleep"}) ~> (proc[i].pc = "sleep")
        /\ (proc[i].pc = "sleep" /\ proc[i].wakeAt <= horizon) ~> (proc[i].pc = "m_load")

\* a job run has been started after a run whose roster load failed
C11_Witness ==
    \E i \in Started :
        /\ proc[i].pc = "m_load"
        /\ proc[i].roster_err
        /\ Len(runs[i]) >= 2

\* the next 00:00:00 of Asia/Kolkata strictly after instant t
NextKolkataMidnight(t) == (DateOf(KolkataNaive(t)) + 1) * MinutesPerDay - Kolkata

\* C12: The wait computed at `now` is the non-negative duration from `now` to the next
\* 00:00:00 of Asia/Kolkata (strictly after `now`), and the job is triggered at that
\* midnight instant: the loop sleeps until exactly that instant.
C12_WaitToKolkataMidnight ==
    [][\A i \in Instances :
          (proc[i].pc = "compute" /\ proc'[i].pc = "sleep") =>
              /\ proc'[i].wakeAt >= now
              /\ proc'[i].wakeAt = NextKolkataMidnight(now)]_vars

\* C13: Streak row existence and uniqueness.  Once a run has processed a member in a
\* calendar month (its streak call has made its statements, none of them failing), there
\* is exactly one streak row for (member, month), also when no run took place on the 1st
\* of that month.
C13_OneRowPerProcessedMonth ==
    \A i \in Instances :
        (AtStreakEnd(i) /\ ~proc[i].store_err) =>
            Cardinality(StreakRows(AttendanceStreak, Cur(i), StreakMonth(proc[i].s_today))) = 1

\* C14: For every (member, month) streak row the counter is >= 0 and never decreases:
\* in every step a row stays, keeping its counter or having it incremented by exactly 1,
\* and a row of a new key is created with counter 0.
C14_CounterMonotone ==
    [][/\ \A r \in AttendanceStreak :
             \E q \in AttendanceStreak' :
                 /\ q.member_id = r.member_id
                 /\ q.month = r.month
                 /\ q.streak \in {r.streak, r.streak + 1}
       /\ \A q \in AttendanceStreak' :
             /\ q.streak >= 0
             /\ ~StreakKeyUsed(AttendanceStreak, q.member_id, q.month) => q.streak = 0]_vars

\* a row has been created and incremented twice
C14_Witness ==
    \E r \in AttendanceStreak : r.streak >= 2

\* instance i takes a step of a run whose roster load (SELECT * FROM Member of
\* scheduled_task) fails in this step or has failed
InFailedRun(i) ==
    /\ proc'[i] # proc[i]
    /\ \/ proc[i].pc \in {"load", "m_load"} /\ proc'[i].roster_err
       \/ proc[i].pc \notin {"off", "sleep", "load", "m_load"} /\ proc[i].roster_err

\* C15: A failure to list the roster is fatal for that run only.  No step of a run whose
\* roster load fails creates an attendance record, creates or changes a streak row, or
\* changes a member's rating.
C15_FailedRosterChangesNothing ==
    [][\A i \in Instances :
          InFailedRun(i) =>
              /\ Attendance' = Attendance
              /\ AttendanceStreak' = AttendanceStreak
              /\ rating' = rating]_vars

\* C16: In every streak step the date queried as `yesterday` is the calendar day before
\* the date used as `today` (both in Asia/Kolkata), whatever the time of day and the
\* machine's zone: the record dated `today` is never the one that is counted.
C16_YesterdayIsDayBefore ==
    \A i \in Instances :
        proc[i].pc \in InStreakCall =>
            Yesterday(proc[i].s_today) = DateOf(proc[i].s_today) - 1

\* the refresh steps of a member: the two stats lookups and the leaderboard update
RefreshSteps == Platforms \cup {"leaderboard"}

\* C17: Within one member's processing the steps occur in the order seed, refresh,
\* streak: when the streak step of a member starts, that member's seeding, both stats
\* lookups and the leaderboard update of the same run are over (whatever their outcome),
\* and in the history of the run every seeding of a member precedes its refresh steps,
\* which precede its streak step.
C17_StepOrder ==
    \A i \in Started :
        /\ proc[i].pc \in ({"streak"} \cup InStreakCall) =>
              /\ \A step \in {"seed"} \cup RefreshSteps :
                    Cardinality(Events(proc[i], Cur(i), {step})) = 1
              /\ Events(proc[i], Cur(i), {"streak"}) = {}
        /\ \A m \in Member :
              /\ \A k1 \in Events(proc[i], m, {"seed"}) :
                    \A k2 \in Events(proc[i], m, RefreshSteps) : k1 < k2
              /\ \A k2 \in Events(proc[i], m, RefreshSteps) :
                    \A k3 \in Events(proc[i], m, {"streak"}) : k2 < k3

\* the streak call of the second member of a roster is under way, after a failed lookup
C17_Witness ==
    \E i \in Started :
        /\ proc[i].pc = "count"
        /\ proc[i].idx = 2
        /\ LookupFailed(proc[i], Cur(i))
        /\ Len(proc[i].log) = 9

\* C18: When yesterday's attendance is present (count 1) and there is no streak row for
\* (member, current month), the streak step goes from the SELECT straight to its end:
\* no row is created and no counter is changed, and from the end of the call the run
\* goes on with the next member (or ends after the last one).
C18_NoRowAnomaly ==
    [][\A i \in Instances :
          /\ (/\ proc[i].pc = "read"
              /\ proc'[i] # proc[i]
              /\ StreakRows(AttendanceStreak, Cur(i), StreakMonth(proc[i].s_today)) = {})
                => (proc'[i].pc = "sdone" /\ AttendanceStreak' = AttendanceStreak)
          /\ (proc[i].pc = "sdone" /\ proc'[i] # proc[i])
                => (/\ proc'[i].pc = (IF proc[i].idx < Len(proc[i].members) THEN "seed" ELSE "compute")
                    /\ AttendanceStreak' = AttendanceStreak)]_vars

\* a mid-month call has counted one present record, found no row, and ended without one
C18_Witness ==
    \E i \in Instances :
        /\ AtStreakEnd(i)
        /\ ~IsMonthStart(proc[i].s_today)
        /\ proc[i].present_attendance = 1
        /\ proc[i].pre = NoRow
        /\ ~proc[i].store_err
        /\ StreakRows(AttendanceStreak, Cur(i), StreakMonth(proc[i].s_today)) = {}

\* C19: When the count of present records for (member, yesterday) is neither 0 nor 1, or
\* the count query fails, the streak step goes from the COUNT straight to its end and
\* leaves the streak table as it is.
C19_BadCountNoMutation ==
    [][\A i \in Instances :
          (/\ proc[i].pc = "count"
           /\ proc'[i] # proc[i]
           /\ proc'[i].present_attendance \notin {0, 1})
             => (proc'[i].pc = "sdone" /\ AttendanceStreak' = AttendanceStreak)]_vars

\* a call whose count query failed has ended with the member's counter, above 0, as it was
C19_Witness ==
    \E i \in Instances :
        /\ AtStreakEnd(i)
        /\ proc[i].present_attendance \notin {0, 1}
        /\ proc[i].pre # NoRow
        /\ proc[i].pre.streak > 0
        /\ RowNow(i) = proc[i].pre

\* the outcomes of the seeding INSERTs of the run of p for a member
SeedOutcomes(p, member) == {p.log[k][3] : k \in Events(p, member, {"seed"})}

\* C20: Seeder fault isolation.  At the end of a run the attendance INSERT has been
\* attempted once for every member of the roster, whether or not the INSERT of another
\* member failed, and every member whose INSERT did not fail has a record for today.
C20_SeederIsolation ==
    \A i \in Started :
        RunEnded(i) =>
            \A k \in 1..Len(proc[i].members) :
                /\ Cardinality(Events(proc[i], proc[i].members[k], {"seed"})) = 1
                /\ "err" \notin SeedOutcomes(proc[i], proc[i].members[k])
                      => AttendanceKeyUsed(Attendance, proc[i].members[k], SeedDate(proc[i].today))

\* a run has ended in which the INSERT of the first member failed, leaving it without a
\* record, and the INSERT of the second member created its record
C20_Witness ==
    \E i \in Started :
        /\ RunEnded(i)
        /\ Len(proc[i].members) = 2
        /\ SeedOutcomes(proc[i], proc[i].members[1]) = {"err"}
        /\ ~AttendanceKeyUsed(Attendance, proc[i].members[1], SeedDate(proc[i].today))
        /\ SeedOutcomes(proc[i], proc[i].members[2]) = {"created"}
        /\ AttendanceKeyUsed(Attendance, proc[i].members[2], SeedDate(proc[i].today))

\* the member's platform selector is neither of the two that update_cp_ratings knows
UnsupportedPlatform(member) == cp_platform[member] \notin {"Codeforces", "LeetCode"}

\* C21: Skipped refresh.  A member whose platform selector is neither "Codeforces" nor
\* "LeetCode" gets no lookup in update_cp_ratings and keeps its rating; a member without
\* a stats row for a platform gets no lookup for that platform in scheduled_task; neither
\* is an error: the run goes on to the member's streak step and to its end.
C21_SkippedSilently ==
    \A i \in Started :
        /\ (proc[i].pc = "cp_done" /\ UnsupportedPlatform(Cur(i))) =>
              /\ proc[i].fetched = NoLookup
              /\ ~proc[i].store_err
              /\ rating[Cur(i)] = proc[i].pre_rating
        /\ (job = "main" /\ RunEnded(i)) =>
              \A k \in 1..Len(proc[i].members) :
                  UnsupportedPlatform(proc[i].members[k]) =>
                      \A e \in Events(proc[i], proc[i].members[k], {"rating"}) :
                          proc[i].log[e][3] = "unsupported"
        /\ (job = "attendance" /\ (RunEnded(i) \/ proc[i].pc = "sdone")) =>
              \A platform \in Platforms :
                  StatsRows(stats[platform], Cur(i)) = {} =>
                      /\ Cardinality(Events(proc[i], Cur(i), {platform})) = 1
                      /\ \A e \in Events(proc[i], Cur(i), {platform}) : proc[i].log[e][3] = "skip"
        /\ stats = InitStats

\* update_cp_ratings has passed a member whose selector is "AtCoder": no lookup, the
\* rating as it was
C21_Witness ==
    \E i \in Started :
        /\ proc[i].pc = "cp_done"
        /\ cp_platform[Cur(i)] = "AtCoder"
        /\ proc[i].fetched = NoLookup
        /\ rating[Cur(i)] \in StoredRatings

\* C23: Handle change.  A step of add_or_update_leetcode_username or
\* add_or_update_codeforces_handle changes the stats rows of one member on one platform
\* only; a member that had a row keeps that one row with every statistic as it was (the
\* handle alone may differ); a member that had none gets exactly one row, with every
\* statistic 0; and no member ever has more than one row per platform.
C23_HandleOnly ==
    [][/\ \A platform \in Platforms, member \in MemberIds :
            LET before == StatsRows(stats[platform], member)
                after == StatsRows(stats'[platform], member)
            IN  /\ Cardinality(after) <= 1
                /\ before # {} =>
                      /\ Cardinality(after) = 1
                      /\ \A r \in before, q \in after : q.stat = r.stat
                /\ (before = {} /\ after # {}) =>
                      \A q \in after : q.stat = ZeroStat(platform)
       /\ Cardinality({pm \in Platforms \X MemberIds :
                StatsRows(stats'[pm[1]], pm[2]) # StatsRows(stats[pm[1]], pm[2])}) <= 1
      ]_vars

\* member 1 has changed its LeetCode handle and kept its statistics, and member 2 has
\* linked Codeforces: one row, every statistic 0
C23_Witness ==
    /\ StatsRows(stats["leetcode"], 1) = {StatsRow(1, "h2", RefreshedStat("leetcode"))}
    /\ StatsRows(stats["codeforces"], 2) = {StatsRow(2, "h1", ZeroStat("codeforces"))}

\* C29: Status-update streak.  Starting from no row and for update_streak calls made one
\* after another, every row of StreakUpdate has max_streak >= streak >= 0, and no step
\* lowers the max_streak of a row or removes a row.
C29_MaxBoundsStreak ==
    /\ [](\A r \in StreakUpdate : r.max_streak >= r.streak /\ r.streak >= 0)
    /\ [][\A r \in StreakUpdate :
             \E q \in StreakUpdate' : q.id = r.id /\ q.max_streak >= r.max_streak]_vars

\* a member's streak has been reset after it had reached the explored maximum
C29_Witness ==
    \E r \in StreakUpdate : r.streak = 0 /\ r.max_streak = MaxStreak

\* the last update_streak call has returned Ok
Returned == call.pc = "idle" /\ call.id # 0 /\ ~call.err

\* C30: update_streak transition.  A call that finds the row (s, m) leaves (s + 1,
\* max(s + 1, m)) when has_sent_update is true and (0, m) when it is false; a call that
\* finds no row creates (0, 0) whatever has_sent_update is.
C30_Transition ==
    Returned =>
        StreakUpdateRows(StreakUpdate, call.id) =
            {IF call.member = NoRow
             THEN StreakUpdateRow(call.id, 0, 0)
             ELSE IF call.has_sent_update
                  THEN StreakUpdateRow(call.id, call.member.streak + 1,
                                       IF call.member.streak + 1 > call.member.max_streak
                                       THEN call.member.streak + 1 ELSE call.member.max_streak)
                  ELSE StreakUpdateRow(call.id, 0, call.member.max_streak)}

\* a call with has_sent_update = true has found the row (0, 1) and left (1, 1)
C30_Witness ==
    /\ Returned
    /\ call.has_sent_update
    /\ call.member # NoRow
    /\ call.member.streak = 0
    /\ call.member.max_streak = 1
    /\ StreakUpdateRows(StreakUpdate, call.id) = {StreakUpdateRow(call.id, 1, 1)}

\* the steps of a run that are made for one member: the seeding and the streak call
MemberSteps == {"seed", "streak", "count", "read", "write"}

\* the rows of the two tables that belong to other members than `member`
RowsOfOthers(att, str, member) ==
    <<{r \in att : r.id # member}, {r \in str : r.member_id # member}>>

\* the dates a run at the current instant may bind: today and yesterday
DatesNow == {SeedDate(now), SeedDate(now) - 1}

OwnFailure(p, member) == LookupFailed(p, member) \/ "err" \in SeedOutcomes(p, member)

\* C24: A member's own failure does not skip its streak step.  In a run in which the
\* seeding or a lookup of member A fails, A's streak call is still made: at the end of
\* the run it is in the history, and when it found yesterday's record present and read
\* A's row (no statement of the call failing) the row holds the value read plus one.
C24_OwnFailureKeepsStreak ==
    \A i \in Started :
        /\ (AtStreakEnd(i) /\ OwnFailure(proc[i], Cur(i))
               /\ proc[i].present_attendance = 1 /\ proc[i].existing_streak # NoRow
               /\ ~proc[i].store_err) =>
              RowNow(i) = Some(proc[i].existing_streak.streak + 1)
        /\ RunEnded(i) =>
              \A k \in 1..Len(proc[i].members) :
                  OwnFailure(proc[i], proc[i].members[k]) =>
                      Cardinality(Events(proc[i], proc[i].members[k], {"streak"})) = 1

\* the seeding and a lookup of a member have failed, and its streak call has raised its
\* counter from 0 to 1
C24_Witness ==
    \E i \in Started :
        /\ AtStreakEnd(i)
        /\ LookupFailed(proc[i], Cur(i))
        /\ "err" \in SeedOutcomes(proc[i], Cur(i))
        /\ proc[i].present_attendance = 1
        /\ proc[i].existing_streak = Some(0)
        /\ RowNow(i) = Some(1)

\* the number of job runs of instance i that started in month `month` (Asia/Kolkata)
RunsIn(i, month) ==
    Cardinality({k \in 1..Len(runs[i]) : MonthOf(SeedDate(runs[i][k])) = month})

\* C25: Bounded increment.  With one scheduler instance, a streak call leaves the
\* member's counter of the month at most one above what it was when the call began, and
\* the counter of a (member, month) never exceeds the number of job runs started in that
\* month, hence never the number of days of the month.
C25_BoundedByRuns ==
    /\ \A i \in Started :
          (AtStreakEnd(i) /\ RowNow(i) # NoRow) =>
              RowNow(i).streak <= (IF proc[i].pre = NoRow THEN 0 ELSE proc[i].pre.streak) + 1
    /\ \A r \in AttendanceStreak :
          /\ r.streak <= RunsIn(1, r.month)
          /\ r.streak <= DaysPerMonth

\* both instances have finished a streak call for the same member and month, each having
\* found yesterday's record present and read the member's row, no statement failing
BothIncremented ==
    /\ \A i \in Instances :
          /\ AtStreakEnd(i)
          /\ proc[i].present_attendance = 1
          /\ proc[i].existing_streak # NoRow
          /\ ~proc[i].store_err
    /\ Cur(1) = Cur(2)
    /\ StreakMonth(proc[1].s_today) = StreakMonth(proc[2].s_today)

\* C26: Read-then-write increment.  When two job instances process the same member with
\* yesterday present and the counter at n (the smaller of the two values read), the
\* counter ends at n + 1 (both read n: one increment is lost) or at n + 2 (the second
\* read saw the first write), and at no other value.
C26_LostUpdateBound ==
    BothIncremented =>
        LET n == Min(proc[1].existing_streak.streak, proc[2].existing_streak.streak)
        IN  /\ RowNow(1) \in {Some(n + 1), Some(n + 2)}
            /\ RowNow(1) = Some(n + 2) <=>
                  proc[1].existing_streak.streak # proc[2].existing_streak.streak

\* both instances read the same value and wrote it plus one: the counter rose by one
C26_Witness ==
    /\ BothIncremented
    /\ proc[1].existing_streak = Some(0)
    /\ proc[2].existing_streak = Some(0)
    /\ RowNow(1) = Some(1)

(***************************************************************************)
(* mark_attendance beside the scheduler.                                   *)
(***************************************************************************)
\* one process runs the scheduler in Asia/Kolkata for one member, who has linked no
\* platform; the device marks the member for today's or yesterday's date, and its calls
\* are recorded
InitMark ==
    /\ tz = Kolkata
    /\ \E start \in StartTimes : now = start - tz
    /\ firstDay \in 0..(DaysPerMonth - 1)
    /\ Attendance = {}
    /\ AttendanceStreak = {}
    /\ stats = [p \in Platforms |-> {}]
    /\ StreakUpdate = {}
    /\ call = NoCall
    /\ called = NotCalled
    /\ runs = [i \in Instances |-> <<>>]
    /\ missed = [i \in Instances |-> {}]
    /\ InitAttendanceJob
    /\ horizon = EndOfDay(MaxDay - 1)
    /\ budget = [mark |-> MaxMarks + 1, add |-> 0]
    /\ logging = TRUE
    /\ Member = {1}
    /\ proc = [i \in Instances |-> IF i = 1 THEN Waiting ELSE Idle]

MarkAnyApi ==
    \E id \in Member, date \in {SeedDate(now) - 1, SeedDate(now)},
       is_present \in BOOLEAN, valid \in BOOLEAN :
        mark_attendance(id, date, is_present, valid)

\* the clock reaches the next 00:00:00 of Asia/Kolkata
TickToMidnight == Tick(NextKolkataMidnight(now) - now)

NextMark ==
    \/ NextJob
    \/ TickToMidnight
    \/ MarkAnyApi

SpecMark == InitMark /\ [][NextMark]_vars

\* a mark_attendance call is made in this step
MarkStep == budget'.mark < budget.mark

\* C27: mark_attendance never creates a record.  A call with a valid signature for a
\* (member, date) without a record returns an error and leaves the table as it was; a
\* call whose signature is not valid (or not hex) returns an error and leaves the table
\* as it was; and no call adds a key to the table.
C27_MarkNeverCreates ==
    [][MarkStep =>
          /\ (~called'.valid \/ called'.before = {}) =>
                /\ called'.result = "err"
                /\ Attendance' = Attendance
          /\ \A id \in MemberIds, date \in Dates \cup {0 - 1} :
                AttendanceKeyUsed(Attendance', id, date) => AttendanceKeyUsed(Attendance, id, date)
      ]_vars

\* a call with a valid signature has been made for a date without a record: an error,
\* and still no record
C27_Witness ==
    /\ called.result = "err"
    /\ called.valid
    /\ called.before = {}
    /\ ~AttendanceKeyUsed(Attendance, called.id, called.date)

\* C28: First-seen time is written once.  A successful mark_attendance on a seeded record
\* sets the last-seen time to the current time and the presence flag to the supplied
\* value; the first successful call on the record sets the first-seen time to the current
\* time, and every later call leaves the first-seen time as it was.
C28_FirstSeenOnce ==
    [][(MarkStep /\ called'.result = "ok") =>
          \A r \in called'.before :
              \E q \in AttendanceRows(Attendance', called'.id, called'.date) :
                  /\ q.timeout = called'.current_time
                  /\ q.is_present = called'.is_present
                  /\ q.timein = IF \E mk \in called.marks : mk[1] = r.id /\ mk[2] = r.date
                                THEN r.timein
                                ELSE called'.current_time
      ]_vars

====
